---- MODULE Spec2Model ----
(***************************************************************************)
(* A model of mcp_spark_documentation: the SQLite/FTS5 document store      *)
(* (database.py), the search front-end (server.py) and the markdown        *)
(* parser (parser.py).                                                     *)
(*                                                                         *)
(* Text is modelled as a sequence of words; the FTS5 tokenizer             *)
(* 'porter unicode61' maps every word to its stem.  A Python Optional is   *)
(* the record None or the record Some(v).                                  *)
(***************************************************************************)
EXTENDS Integers, Sequences, FiniteSets, TLC

VARIABLES documents, documents_fts, sqlite_sequence, now, ret, parsed, fs, indexer, conn

vars == <<documents, documents_fts, sqlite_sequence, now, ret, parsed, fs, indexer, conn>>

-----------------------------------------------------------------------------
(* Bounds of the model *)

\* upper bound of the AUTOINCREMENT counter for the upserts a caller makes
\* directly, i.e. of the number of those upserts
MaxSeq == 3

\* upper bound of the clock read by CURRENT_TIMESTAMP
MaxClock == 1

-----------------------------------------------------------------------------
(* Optional values *)

None == [some |-> FALSE]

Some(v) == [some |-> TRUE, val |-> v]

\* Python truthiness of an Optional[str]: None and "" are falsy
Truthy(o) == o.some /\ o.val # ""

-----------------------------------------------------------------------------
(* Input domains *)

Paths == {"doc1.md", "doc2.md"}

\* the field values a Document is upserted with: a page with the term
\* "stream" in title and body, one with it in the description only, one
\* without it, and one with it in the body only
Versions ==
    { [title |-> <<"Spark", "Streaming">>, description |-> None,
       section |-> "streaming", content |-> <<"Streaming", "content">>,
       url |-> "u1"],
      [title |-> <<"Spark", "SQL">>, description |-> Some(<<"streams">>),
       section |-> "sql", content |-> <<"SQL", "content", "content">>,
       url |-> "u2"],
      [title |-> <<"Spark", "SQL">>, description |-> None,
       section |-> "sql", content |-> <<"SQL", "content", "content">>,
       url |-> "u2"],
      [title |-> <<"Spark", "SQL">>, description |-> None,
       section |-> "streaming", content |-> <<"Streaming", "content">>,
       url |-> "u1"] }

\* models.py Document
Document ==
    { [path |-> p, title |-> v.title, description |-> v.description,
       section |-> v.section, content |-> v.content, url |-> v.url] :
      p \in Paths, v \in Versions }

Queries == {<<"stream">>, <<"Spark", "SQL">>, <<"content", "streams">>}

SectionArgs == {None, Some(""), Some("streaming"), Some("sql")}

StoreLimits == {-1, 0, 1, 2}

-----------------------------------------------------------------------------
(* Tokenizer *)

\* porter stemming after unicode61 case folding, on the vocabulary in use
Stem(w) ==
    CASE w = "Streaming" -> "stream"
      [] w = "streams" -> "stream"
      [] w = "stream" -> "stream"
      [] w = "Spark" -> "spark"
      [] w = "SQL" -> "sql"
      [] OTHER -> w

Tokenize(text) == [i \in 1..Len(text) |-> Stem(text[i])]

\* a NULL column contributes no token
TokenizeOpt(o) == IF o.some THEN Tokenize(o.val) ELSE <<>>

\* the tokenized projection of (rowid, title, description, content)
FtsEntry(rowid, title, description, content) ==
    [rowid |-> rowid, title |-> Tokenize(title),
     description |-> TokenizeOpt(description), content |-> Tokenize(content)]

-----------------------------------------------------------------------------
(* Schema: triggers keeping documents_fts in step with documents *)

\* AFTER INSERT
documents_ai(fts, new) ==
    fts \cup {FtsEntry(new.id, new.title, new.description, new.content)}

\* documents_ad leaving the index as it is
documents_ad_noop(fts, old) == fts

\* AFTER DELETE: the FTS5 'delete' command removes the entry built from old.*
documents_ad(fts, old) ==
    fts \ {FtsEntry(old.id, old.title, old.description, old.content)}

\* documents_au without its 'delete' of old.*
documents_au_keep_old(fts, old, new) ==
    fts \cup {FtsEntry(new.id, new.title, new.description, new.content)}

\* AFTER UPDATE: 'delete' of old.*, then insert of new.*
documents_au(fts, old, new) ==
    (fts \ {FtsEntry(old.id, old.title, old.description, old.content)})
        \cup {FtsEntry(new.id, new.title, new.description, new.content)}

RECURSIVE DeleteAll(_, _)
\* DELETE FROM documents: the delete trigger runs once per deleted row
DeleteAll(fts, rows) ==
    IF rows = {} THEN fts
    ELSE LET r == CHOOSE x \in rows : TRUE
         IN DeleteAll(documents_ad(fts, r), rows \ {r})

-----------------------------------------------------------------------------
(* DocumentDatabase *)

RowsWithPath(p) == {r \in documents : r.path = p}

\* INSERT ... the row of the VALUES clause, defaults filled in
NewRow(doc) ==
    [id |-> sqlite_sequence + 1, path |-> doc.path, title |-> doc.title,
     description |-> doc.description, section |-> doc.section,
     url |-> doc.url, content |-> doc.content,
     created_at |-> now, updated_at |-> now]

\* an update that adds the new content to the stored content
UpdatedRow_append_content(old, doc) ==
    [old EXCEPT !.title = doc.title, !.description = doc.description,
                !.section = doc.section, !.url = doc.url,
                !.content = @ \o doc.content, !.updated_at = now]

\* an update that leaves url out of its SET list
UpdatedRow_keep_url(old, doc) ==
    [old EXCEPT !.title = doc.title, !.description = doc.description,
                !.section = doc.section, !.content = doc.content,
                !.updated_at = now]

\* an update that writes the created_at default again, as a REPLACE would
UpdatedRow_reset_created(old, doc) ==
    [old EXCEPT !.title = doc.title, !.description = doc.description,
                !.section = doc.section, !.url = doc.url,
                !.content = doc.content, !.created_at = now,
                !.updated_at = now]

\* ON CONFLICT(path) DO UPDATE SET ...
UpdatedRow(old, doc) ==
    [old EXCEPT !.title = doc.title, !.description = doc.description,
                !.section = doc.section, !.url = doc.url,
                !.content = doc.content, !.updated_at = now]

\* a path column that is not UNIQUE
Conflict_never(doc) == FALSE

\* UNIQUE(path): is the insert in conflict with a stored row
Conflict(doc) == RowsWithPath(doc.path) # {}

\* the rows and the index entries the statement INSERT ... ON CONFLICT(path)
\* DO UPDATE leaves, its triggers included
Upserted(doc) ==
    IF Conflict(doc)
    THEN LET old == CHOOSE r \in documents : r.path = doc.path
             new == UpdatedRow(old, doc)
         IN [documents |-> (documents \ {old}) \cup {new},
             documents_fts |-> documents_au(documents_fts, old, new)]
    ELSE LET new == NewRow(doc)
         IN [documents |-> documents \cup {new},
             documents_fts |-> documents_ai(documents_fts, new)]

\* INSERT ... ON CONFLICT(path) DO UPDATE, then commit.  SQLite advances the
\* AUTOINCREMENT counter for the attempted insert also when the statement
\* ends as an update, so an id is never given twice.
upsert_document(doc) ==
    /\ documents' = Upserted(doc).documents
    /\ documents_fts' = Upserted(doc).documents_fts
    /\ sqlite_sequence' = sqlite_sequence + 1
    /\ ret' = [op |-> "upsert_document", doc |-> doc]
    /\ UNCHANGED <<now, parsed>>

\* the rows and the index entries DELETE FROM documents leaves
Cleared == [documents |-> {}, documents_fts |-> DeleteAll(documents_fts, documents)]

\* DELETE FROM documents, then commit
clear ==
    /\ documents' = Cleared.documents
    /\ documents_fts' = Cleared.documents_fts
    /\ ret' = [op |-> "clear", before |-> {r.path : r \in documents}]
    /\ UNCHANGED <<sqlite_sequence, now, parsed>>

-----------------------------------------------------------------------------
(* A write as other connections see it.  Every call opens a connection of  *)
(* its own; execute() runs the statement and its triggers in the implicit  *)
(* transaction of that connection, commit() publishes table and index      *)
(* together, and close() without commit() discards both.  documents and    *)
(* documents_fts are the committed database, the one a read on another     *)
(* connection is answered from.                                            *)

\* no write is between its execute() and its commit()
NoConnection == [state |-> "closed"]

\* the connection of a write after conn.execute(...)
Pending(written, sequence, call) ==
    [state |-> "pending", documents |-> written.documents,
     documents_fts |-> written.documents_fts, sqlite_sequence |-> sequence,
     ret |-> call]

\* an execute() whose table write is on disk at once, the index write at commit
ExecuteUpsert_write_through ==
    /\ conn.state = "closed"
    /\ sqlite_sequence < MaxSeq
    /\ \E doc \in Document :
          /\ conn' = Pending(Upserted(doc), sqlite_sequence + 1,
                             [op |-> "upsert_document", doc |-> doc])
          /\ documents' = Upserted(doc).documents
    /\ UNCHANGED <<documents_fts, sqlite_sequence, now, ret, parsed, fs, indexer>>

\* upsert_document up to the end of conn.execute(...)
ExecuteUpsert ==
    /\ conn.state = "closed"
    /\ sqlite_sequence < MaxSeq
    /\ \E doc \in Document :
          conn' = Pending(Upserted(doc), sqlite_sequence + 1,
                          [op |-> "upsert_document", doc |-> doc])
    /\ UNCHANGED <<documents, documents_fts, sqlite_sequence, now, ret, parsed, fs, indexer>>

\* clear up to the end of conn.execute("DELETE FROM documents")
ExecuteClear ==
    /\ conn.state = "closed"
    /\ conn' = Pending(Cleared, sqlite_sequence,
                       [op |-> "clear", before |-> {r.path : r \in documents}])
    /\ UNCHANGED <<documents, documents_fts, sqlite_sequence, now, ret, parsed, fs, indexer>>

\* conn.commit(), after which the call returns
Commit ==
    /\ conn.state = "pending"
    /\ documents' = conn.documents
    /\ documents_fts' = conn.documents_fts
    /\ sqlite_sequence' = conn.sqlite_sequence
    /\ ret' = conn.ret
    /\ conn' = NoConnection
    /\ UNCHANGED <<now, parsed, fs, indexer>>

\* the write fails or its process dies before conn.commit(): conn.close(),
\* or the next opening of the database, rolls the transaction back
Rollback ==
    /\ conn.state = "pending"
    /\ ret' = [op |-> "raised", call |-> conn.ret]
    /\ conn' = NoConnection
    /\ UNCHANGED <<documents, documents_fts, sqlite_sequence, now, parsed, fs, indexer>>

-----------------------------------------------------------------------------
(* Full-text search: MATCH, bm25, snippet *)

Abs(x) == IF x < 0 THEN -x ELSE x

Min(a, b) == IF a < b THEN a ELSE b

Max(a, b) == IF a > b THEN a ELSE b

Range(f) == {f[i] : i \in DOMAIN f}

Count(tokens, t) == Cardinality({i \in DOMAIN tokens : tokens[i] = t})

EntryTokens(e) == Range(e.title) \cup Range(e.description) \cup Range(e.content)

\* a MATCH that takes the terms as alternatives
Matches_any(e, query) == \E t \in Range(Tokenize(query)) : t \in EntryTokens(e)

\* documents_fts MATCH ?: every term of the query (implicit AND) occurs,
\* by stem, in some column of the entry
Matches(e, query) == \A t \in Range(Tokenize(query)) : t \in EntryTokens(e)

\* number of tokens of an entry, over its three columns
DocSize(e) == Len(e.title) + Len(e.description) + Len(e.content)

RECURSIVE TotalSize(_)
TotalSize(fts) ==
    IF fts = {} THEN 0
    ELSE LET e == CHOOSE x \in fts : TRUE
         IN DocSize(e) + TotalSize(fts \ {e})

\* bm25(documents_fts, 5.0, 2.0, 1.0): column weights of title, description, content
WeightTitle == 5

WeightDescription == 2

WeightContent == 1

WeightedFreq(e, t) ==
    WeightTitle * Count(e.title, t)
        + WeightDescription * Count(e.description, t)
        + WeightContent * Count(e.content, t)

\* inverse document frequency log((N - n + 0.5) / (n + 0.5)) in units of 1e-6,
\* tabulated for an index of up to 6 entries; FTS5 replaces a value that is
\* not positive (N <= 2n) by 1e-6
Idf(N, n) ==
    IF N <= 2 * n THEN 1
    ELSE CASE N = 3 /\ n = 1 -> 510826
           [] N = 4 /\ n = 1 -> 847298
           [] N = 5 /\ n = 1 -> 1098612
           [] N = 5 /\ n = 2 -> 336472
           [] N = 6 /\ n = 1 -> 1299283
           [] N = 6 /\ n = 2 -> 587787
           [] OTHER -> 1

\* f * (k1 + 1) / (f + k1 * (1 - b + b * D / avgdl)) with k1 = 1.2, b = 0.75
\* and avgdl = T / N, in units of 1/100
Saturation(f, D, T, N) == (2200 * f * T) \div (10 * f * T + 3 * T + 9 * D * N)

RECURSIVE SumTerms(_, _, _)
SumTerms(fts, e, terms) ==
    IF terms = {} THEN 0
    ELSE LET t == CHOOSE x \in terms : TRUE
             nHit == Cardinality({x \in fts : t \in EntryTokens(x)})
         IN Idf(Cardinality(fts), nHit)
                * Saturation(WeightedFreq(e, t), DocSize(e), TotalSize(fts),
                             Cardinality(fts))
              + SumTerms(fts, e, terms \ {t})

\* FTS5 returns the bm25 score negated: the best match has the least value
bm25(fts, e, query) == 0 - SumTerms(fts, e, Range(Tokenize(query)))

RECURSIVE snippet(_, _)
\* snippet(documents_fts, 2, '<mark>', '</mark>', '...', 64): the content
\* column with the matched words marked
snippet(content, query) ==
    IF content = <<>> THEN <<>>
    ELSE LET w == Head(content)
         IN (IF Stem(w) \in Range(Tokenize(query))
             THEN <<"<mark>", w, "</mark>">> ELSE <<w>>)
                \o snippet(Tail(content), query)

\* the selection without its section condition
SelectedRows_no_section(query, section) ==
    { [d |-> d, score |-> bm25(documents_fts, e, query)] :
        <<e, d>> \in
          { x \in documents_fts \X documents :
              /\ x[1].rowid = x[2].id
              /\ Matches(x[1], query) } }

\* FROM documents_fts JOIN documents d ON documents_fts.rowid = d.id
\* WHERE documents_fts MATCH ? [AND d.section = ?]
SelectedRows(query, section) ==
    { [d |-> d, score |-> bm25(documents_fts, e, query)] :
        <<e, d>> \in
          { x \in documents_fts \X documents :
              /\ x[1].rowid = x[2].id
              /\ Matches(x[1], query)
              /\ (Truthy(section) => x[2].section = section.val) } }

RECURSIVE OrderByScore_desc(_)
\* ORDER BY score DESC
OrderByScore_desc(rows) ==
    IF rows = {} THEN <<>>
    ELSE LET r == CHOOSE x \in rows : \A y \in rows :
                      \/ x.score > y.score
                      \/ (x.score = y.score /\ x.d.id <= y.d.id)
         IN <<r>> \o OrderByScore_desc(rows \ {r})

RECURSIVE OrderByScore(_)
\* ORDER BY score: ascending; rows of equal score come in rowid order
OrderByScore(rows) ==
    IF rows = {} THEN <<>>
    ELSE LET r == CHOOSE x \in rows : \A y \in rows :
                      \/ x.score < y.score
                      \/ (x.score = y.score /\ x.d.id <= y.d.id)
         IN <<r>> \o OrderByScore(rows \ {r})

\* LIMIT ?: a negative limit is no limit
Limit(rows, limit) ==
    IF limit < 0 THEN rows ELSE SubSeq(rows, 1, Min(limit, Len(rows)))

\* models.py SearchResult
SearchResult(row, query) ==
    [path |-> row.d.path, title |-> row.d.title, url |-> row.d.url,
     section |-> row.d.section, snippet |-> snippet(row.d.content, query),
     score |-> Abs(row.score)]

search(query, section, limit) ==
    LET rows == Limit(OrderByScore(SelectedRows(query, section)), limit)
    IN [i \in 1..Len(rows) |-> SearchResult(rows[i], query)]

get_document(path) ==
    IF RowsWithPath(path) # {}
    THEN LET row == CHOOSE r \in documents : r.path = path
         IN Some([path |-> row.path, title |-> row.title,
                  description |-> row.description, section |-> row.section,
                  content |-> row.content, url |-> row.url])
    ELSE None

get_document_count == Cardinality(documents)

\* the read operations, as calls that leave the store alone
Search ==
    /\ \E q \in Queries, s \in SectionArgs, l \in StoreLimits :
          ret' = [op |-> "search", query |-> q, section |-> s, limit |-> l,
                  value |-> search(q, s, l)]
    /\ UNCHANGED <<documents, documents_fts, sqlite_sequence, now, parsed, fs, indexer, conn>>

GetDocument ==
    /\ \E p \in Paths :
          ret' = [op |-> "get_document", path |-> p, value |-> get_document(p)]
    /\ UNCHANGED <<documents, documents_fts, sqlite_sequence, now, parsed, fs, indexer, conn>>

GetDocumentCount ==
    /\ ret' = [op |-> "get_document_count", value |-> get_document_count]
    /\ UNCHANGED <<documents, documents_fts, sqlite_sequence, now, parsed, fs, indexer, conn>>

\* search(query) without section filter and without limit
SearchAll ==
    /\ \E q \in Queries :
          ret' = [op |-> "search", query |-> q, section |-> None, limit |-> -1,
                  value |-> search(q, None, -1)]
    /\ UNCHANGED <<documents, documents_fts, sqlite_sequence, now, parsed, fs, indexer, conn>>

-----------------------------------------------------------------------------
(* server.py: the outward-facing operations *)

ServerLimits == {-1, 0, 1, 2, 51}

\* the least and the greatest limit handed to the store
MinLimit == 1

MaxLimit == 50

\* a clamp without its lower end
ClampLimit_no_floor(limit) == Min(limit, MaxLimit)

\* limit = min(max(1, limit), 50)
ClampLimit(limit) == Min(Max(MinLimit, limit), MaxLimit)

\* round(r.score, 4): from units of 1e-8 to units of 1e-4
Round4(score) == (score + 5000) \div 10000

SearchOutput(query, section, results) ==
    IF Len(results) = 0
    THEN [message |-> "No results found", results |-> <<>>]
    ELSE [query |-> query, section_filter |-> section,
          result_count |-> Len(results),
          results |-> [i \in 1..Len(results) |->
                         [title |-> results[i].title, url |-> results[i].url,
                          path |-> results[i].path,
                          section |-> results[i].section,
                          snippet |-> results[i].snippet,
                          relevance_score |-> Round4(results[i].score)]]]

_search_documentation_impl(query, section, limit) ==
    /\ ret' = [op |-> "search_documentation", query |-> query,
               section |-> section, limit |-> limit,
               store_limit |-> ClampLimit(limit),
               output |-> SearchOutput(query, section,
                              search(query, section, ClampLimit(limit)))]
    /\ UNCHANGED <<documents, documents_fts, sqlite_sequence, now, parsed, fs, indexer, conn>>

ReadOutput(path, document) ==
    IF ~document.some
    THEN [error |-> "Document not found", path |-> path]
    ELSE [path |-> document.val.path, title |-> document.val.title,
          description |-> document.val.description,
          section |-> document.val.section, url |-> document.val.url,
          content |-> document.val.content]

_read_documentation_impl(path) ==
    /\ ret' = [op |-> "read_documentation", path |-> path,
               output |-> ReadOutput(path, get_document(path))]
    /\ UNCHANGED <<documents, documents_fts, sqlite_sequence, now, parsed, fs, indexer, conn>>

-----------------------------------------------------------------------------
(* parser.py: DocumentParser.  A Python str is a sequence of characters. *)

LowerCase ==
    <<"a", "b", "c", "d", "e", "f", "g", "h", "i", "j", "k", "l", "m",
      "n", "o", "p", "q", "r", "s", "t", "u", "v", "w", "x", "y", "z">>

UpperCase ==
    <<"A", "B", "C", "D", "E", "F", "G", "H", "I", "J", "K", "L", "M",
      "N", "O", "P", "Q", "R", "S", "T", "U", "V", "W", "X", "Y", "Z">>

IsLower(c) == \E i \in DOMAIN LowerCase : LowerCase[i] = c

IsUpper(c) == \E i \in DOMAIN UpperCase : UpperCase[i] = c

IsCased(c) == IsLower(c) \/ IsUpper(c)

ToUpper(c) ==
    IF IsLower(c) THEN UpperCase[CHOOSE i \in DOMAIN LowerCase : LowerCase[i] = c]
    ELSE c

ToLower(c) ==
    IF IsUpper(c) THEN LowerCase[CHOOSE i \in DOMAIN UpperCase : UpperCase[i] = c]
    ELSE c

\* str.replace(a, b) for single characters a and b
Replace(str, a, b) == [i \in 1..Len(str) |-> IF str[i] = a THEN b ELSE str[i]]

\* str.title(): a cased character is upper-cased when the character before it
\* is not cased and lower-cased when it is
StrTitle(str) ==
    [i \in 1..Len(str) |->
        IF ~IsCased(str[i]) THEN str[i]
        ELSE IF i > 1 /\ IsCased(str[i - 1]) THEN ToLower(str[i])
        ELSE ToUpper(str[i])]

\* the position of the last '.' of a name, 0 when it has none
LastDot(name) ==
    IF \E i \in 1..Len(name) : name[i] = "."
    THEN CHOOSE i \in 1..Len(name) :
            name[i] = "." /\ \A j \in (i + 1)..Len(name) : name[j] # "."
    ELSE 0

\* pathlib's Path.stem: the name without its last suffix; a leading or a
\* trailing '.' starts no suffix
PathStem(name) ==
    IF 1 < LastDot(name) /\ LastDot(name) < Len(name)
    THEN SubSeq(name, 1, LastDot(name) - 1)
    ELSE name

\* the values a frontmatter field is loaded with
YStr(str) == [type |-> "str", val |-> str]

YInt(n) == [type |-> "int", num |-> n]

YNull == [type |-> "null"]

\* a key the frontmatter does not have
Absent == [type |-> "absent"]

\* dict.get(key): None for a key that is absent
MetadataGet(metadata, key) ==
    IF metadata[key] = Absent THEN YNull ELSE metadata[key]

\* isinstance(value, str)
IsStr(value) == value.type = "str"

\* models.py DocumentMetadata
_extract_metadata(metadata, file_name) ==
    LET title == MetadataGet(metadata, "title")
        description == MetadataGet(metadata, "description")
        license_info == MetadataGet(metadata, "license")
    IN [title |-> IF ~IsStr(title)
                  THEN StrTitle(Replace(Replace(PathStem(file_name), "-", " "),
                                        "_", " "))
                  ELSE title.val,
        description |-> IF ~IsStr(description) THEN None
                        ELSE Some(description.val),
        license |-> IF ~IsStr(license_info) THEN None
                    ELSE Some(license_info.val)]

FileNames ==
    { <<"t", "e", "s", "t", "-", "f", "i", "l", "e", ".", "m", "d">>,
      <<"s", "q", "l", "_", "r", "e", "f", "-", "s", "y", "n", "t", "a", "x", ".", "m", "d">>,
      <<"i", "n", "d", "e", "x", ".", "m", "d">>,
      <<"m", "l", "G", "u", "i", "d", "e", "2", "x", ".", "v", "1", ".", "m", "a", "r", "k", "d", "o", "w", "n">> }

MetadataTitles ==
    {Absent, YNull, YInt(5), YStr(<<>>), YStr(<<"M", "y", " ", "t", "i", "t", "l", "e">>)}

MetadataDescriptions == {Absent, YInt(5), YStr(<<>>), YStr(<<"A", " ", "t", "e", "s", "t">>)}

MetadataLicenses == {Absent, YStr(<<"A", "p", "a", "c", "h", "e">>)}

Metadata ==
    [title : MetadataTitles, description : MetadataDescriptions,
     license : MetadataLicenses]

ExtractMetadata ==
    /\ parsed.op = "input"
    /\ parsed' = [op |-> "_extract_metadata", metadata |-> parsed.metadata,
                  file_name |-> parsed.file_name,
                  value |-> _extract_metadata(parsed.metadata, parsed.file_name)]
    /\ UNCHANGED <<documents, documents_fts, sqlite_sequence, now, ret, fs, indexer, conn>>

-----------------------------------------------------------------------------
(* parser.py: URL derivation *)

StartsWith(str, prefix) ==
    Len(str) >= Len(prefix) /\ SubSeq(str, 1, Len(prefix)) = prefix

\* str.endswith(suffix)
EndsWith(str, suffix) ==
    /\ Len(str) >= Len(suffix)
    /\ SubSeq(str, Len(str) - Len(suffix) + 1, Len(str)) = suffix

RECURSIVE RemoveAll(_, _)
\* str.replace(pattern, ""): every occurrence of the pattern, from the left
RemoveAll(str, pattern) ==
    IF Len(str) < Len(pattern) THEN str
    ELSE IF StartsWith(str, pattern)
         THEN RemoveAll(SubSeq(str, Len(pattern) + 1, Len(str)), pattern)
         ELSE <<Head(str)>> \o RemoveAll(Tail(str), pattern)

DotMd == <<".", "m", "d">>

DotMarkdown == <<".", "m", "a", "r", "k", "d", "o", "w", "n">>

DotHtml == <<".", "h", "t", "m", "l">>

SPARK_DOCS_BASE_URL ==
    <<"h", "t", "t", "p", "s", ":", "/", "/", "s", "p", "a", "r", "k", ".",
      "a", "p", "a", "c", "h", "e", ".", "o", "r", "g", "/", "d", "o", "c",
      "s", "/", "l", "a", "t", "e", "s", "t">>

_compute_url(relative_path) ==
    LET path_str == RemoveAll(RemoveAll(relative_path, DotMd), DotMarkdown)
    IN SPARK_DOCS_BASE_URL \o <<"/">>
          \o (IF ~EndsWith(path_str, DotHtml) THEN path_str \o DotHtml
              ELSE path_str)

\* paths of markdown files, relative to the documentation directory
RelativePaths ==
    { <<"s", "q", "l", "-", "r", "e", "f", "/", "s", "y", "n", "t", "a", "x", ".", "m", "d">>,
      <<"i", "n", "d", "e", "x", ".", "m", "d">>,
      <<"g", "u", "i", "d", "e", ".", "m", "a", "r", "k", "d", "o", "w", "n">>,
      <<"a", "p", "i", ".", "m", "d", "x", "/", "i", "n", "t", "r", "o", ".", "m", "d">>,
      <<"p", "a", "g", "e", ".", "h", "t", "m", "l", ".", "m", "d">>,
      <<"v", "1", ".", "m", "d", "/", "a", ".", "m", "d">> }

ComputeUrl ==
    /\ parsed.op = "input_path"
    /\ parsed' = [op |-> "_compute_url", relative_path |-> parsed.relative_path,
                  value |-> _compute_url(parsed.relative_path)]
    /\ UNCHANGED <<documents, documents_fts, sqlite_sequence, now, ret, fs, indexer, conn>>

-----------------------------------------------------------------------------
(* parser.py: content normalization.  The text is carried through the     *)
(* substitutions as a sequence of [c, i]: a character c and its position i *)
(* in the raw content.                                                     *)

\* upper bound of the number of pieces a raw content is put together from
MaxChunks == 3

Tagged(content) == [k \in 1..Len(content) |-> [c |-> content[k], i |-> k]]

Chars(t) == [k \in 1..Len(t) |-> t[k].c]

\* the pattern is at position k of the text
At(t, k, pattern) ==
    /\ k >= 1
    /\ k + Len(pattern) - 1 <= Len(t)
    /\ \A j \in 1..Len(pattern) : t[k + j - 1].c = pattern[j]

\* a span from `open` at k to `close` at j, with '.' not matching a newline
\* unless dotall
Spans(t, k, j, open, close, dotall) ==
    /\ At(t, k, open)
    /\ j >= k + Len(open)
    /\ At(t, j, close)
    /\ dotall \/ \A m \in (k + Len(open))..(j - 1) : t[m].c # "\n"

\* the start of the closing delimiter of the non-greedy match at k, 0 if
\* there is no match at k
MatchClose(t, k, open, close, dotall) ==
    IF \E j \in 1..Len(t) : Spans(t, k, j, open, close, dotall)
    THEN CHOOSE j \in 1..Len(t) :
            /\ Spans(t, k, j, open, close, dotall)
            /\ \A m \in 1..(j - 1) : ~Spans(t, k, m, open, close, dotall)
    ELSE 0

RECURSIVE SubDelimited(_, _, _, _, _)
\* re.sub(open .*? close, "", text[k:]): leftmost matches, not overlapping
SubDelimited(t, k, open, close, dotall) ==
    IF k > Len(t) THEN <<>>
    ELSE LET j == MatchClose(t, k, open, close, dotall)
         IN IF j # 0
            THEN SubDelimited(t, j + Len(close), open, close, dotall)
            ELSE <<t[k]>> \o SubDelimited(t, k + 1, open, close, dotall)

\* the '>' that ends the match of <[^>]+> at k, 0 if there is no match at k
TagClose(t, k) ==
    IF t[k].c = "<" /\ \E j \in (k + 1)..Len(t) : t[j].c = ">"
    THEN LET j == CHOOSE j \in (k + 1)..Len(t) :
                     t[j].c = ">" /\ \A m \in (k + 1)..(j - 1) : t[m].c # ">"
         IN IF j >= k + 2 THEN j ELSE 0
    ELSE 0

RECURSIVE SubTags(_, _)
\* re.sub(r"<[^>]+>", "", text[k:])
SubTags(t, k) ==
    IF k > Len(t) THEN <<>>
    ELSE IF TagClose(t, k) # 0 THEN SubTags(t, TagClose(t, k) + 1)
    ELSE <<t[k]>> \o SubTags(t, k + 1)

Whitespace == {" ", "\n", "\t"}

RECURSIVE Strip(_)
\* str.strip()
Strip(t) ==
    IF t = <<>> THEN t
    ELSE IF Head(t).c \in Whitespace THEN Strip(Tail(t))
    ELSE IF t[Len(t)].c \in Whitespace THEN Strip(SubSeq(t, 1, Len(t) - 1))
    ELSE t

LiquidTagOpen == <<"{", "%">>

LiquidTagClose == <<"%", "}">>

LiquidOutputOpen == <<"{", "{">>

LiquidOutputClose == <<"}", "}">>

CommentOpen == <<"<", "!", "-", "-">>

CommentClose == <<"-", "-", ">">>

\* the substitutions with the comments taken out first
CleanTagged_comments_first(t) ==
    LET comments == SubDelimited(t, 1, CommentOpen, CommentClose, TRUE)
        liquidTags == SubDelimited(comments, 1, LiquidTagOpen, LiquidTagClose, FALSE)
        liquidOutputs ==
            SubDelimited(liquidTags, 1, LiquidOutputOpen, LiquidOutputClose, FALSE)
    IN Strip(SubTags(liquidOutputs, 1))

\* the four substitutions and the strip, in the order of the code
CleanTagged(t) ==
    LET liquidTags == SubDelimited(t, 1, LiquidTagOpen, LiquidTagClose, FALSE)
        liquidOutputs ==
            SubDelimited(liquidTags, 1, LiquidOutputOpen, LiquidOutputClose, FALSE)
        comments ==
            SubDelimited(liquidOutputs, 1, CommentOpen, CommentClose, TRUE)
    IN Strip(SubTags(comments, 1))

_clean_content(content) == Chars(CleanTagged(Tagged(content)))

\* the pieces raw contents are put together from
Chunks ==
    { <<"{", "%", " ", "i", " ", "%", "}">>,
      <<"{", "{", " ", "v", " ", "}", "}">>,
      <<"<", "!", "-", "-", "c", "\n", "d", "-", "-", ">">>,
      <<"<", "b", ">">>,
      <<"H", "i">>,
      <<" ", "\n">>,
      <<"{">>,
      <<"%", " ", "x", " ", "%", "}">>,
      <<"{", "%", " ", "<", "!", "-", "-", " ", "%", "}", " ", "a", " ", "-", "-", ">">> }

RECURSIVE Concat(_)
Concat(chunks) ==
    IF chunks = <<>> THEN <<>> ELSE Head(chunks) \o Concat(Tail(chunks))

RawContents ==
    UNION { {Concat(cs) : cs \in [1..n -> Chunks]} : n \in 1..MaxChunks }

CleanContent ==
    /\ parsed.op = "input_content"
    /\ parsed' = [op |-> "_clean_content", content |-> parsed.content,
                  value |-> _clean_content(parsed.content)]
    /\ UNCHANGED <<documents, documents_fts, sqlite_sequence, now, ret, fs, indexer, conn>>

-----------------------------------------------------------------------------
(* indexer.py: SparkDocsIndexer.  fs is the documentation source of a run, *)
(* the directory given to index_from_path or the docs directory of the     *)
(* repository index_from_git clones.  It holds, for every path, no file, a *)
(* file that cannot be parsed, or a file given by the fields the parser    *)
(* makes of it.                                                            *)

\* upper bound of the number of indexing runs that are started
MaxRuns == 2

NoFile == [kind |-> "none"]

\* a file frontmatter.load or the parser fails on
BadFile == [kind |-> "bad"]

OkFile(v) == [kind |-> "ok", fields |-> v]

\* the pages the files of a directory are taken from
FileVersions ==
    {v \in Versions :
        v.description = None /\ (v.title = <<"Spark", "SQL">> <=> v.section = "sql")}

\* the files a path can hold: doc2.md is missing or one good page
Files(p) ==
    IF p = "doc1.md"
    THEN {NoFile, BadFile} \cup {OkFile(v) : v \in FileVersions}
    ELSE {NoFile} \cup {OkFile(v) : v \in FileVersions}

\* docs_path.exists() is false
NoDirectory == [exists |-> FALSE, files |-> [p \in Paths |-> NoFile]]

Directories ==
    {NoDirectory} \cup
    {[exists |-> TRUE, files |-> f] :
        f \in {g \in [Paths -> UNION {Files(p) : p \in Paths}] :
                  \A p \in Paths : g[p] \in Files(p)}}

\* parser.py parse_file: the Document of a file, None for a file that is
\* missing or raises inside the try block
parse_file(file_path, docs) ==
    LET file == docs.files[file_path]
    IN IF file.kind = "ok"
       THEN Some([path |-> file_path, title |-> file.fields.title,
                  description |-> file.fields.description,
                  section |-> file.fields.section,
                  content |-> file.fields.content, url |-> file.fields.url])
       ELSE None

\* docs_path.rglob("*.md") + docs_path.rglob("*.markdown"): the files present
MarkdownFiles(docs) == {p \in Paths : docs.files[p] # NoFile}

\* the orders a directory walk can list a set of files in
Orderings(S) ==
    {o \in [1..Cardinality(S) -> S] : \A i, j \in 1..Cardinality(S) : o[i] = o[j] => i = j}

\* what a caller can compare two runs by: the Documents without their
\* timestamps and ids, the count and the result of every search
NoSnapshot == [taken |-> FALSE]

StoredDocuments == {get_document(p).val : p \in {r.path : r \in documents}}

TakeSnapshot(returned) ==
    [taken |-> TRUE, returned |-> returned,
     docs |-> StoredDocuments, count |-> get_document_count,
     results |-> [a \in Queries \X SectionArgs \X StoreLimits |->
                    search(a[1], a[2], a[3])]]

\* no run has been started
IndexerIdle ==
    [pc |-> "idle", op |-> "none", runs |-> 0,
     md_files |-> <<>>, indexed_count |-> 0, upserted |-> <<>>,
     skipped |-> <<>>, result |-> None, error |-> "none", before |-> {},
     prev |-> NoSnapshot, last |-> NoSnapshot]

\* no run is in progress
Stopped == indexer.pc \in {"idle", "done", "raised", "crashed"}

\* a fresh run of operation op; a rebuild remembers the rows stored when it
\* started, and every run the snapshot of an index_from_path run that
\* completed right before it on the directory as it still is
StartRun(op) ==
    [IndexerIdle EXCEPT
        !.op = op, !.runs = indexer.runs + 1,
        !.before = IF op = "rebuild_index" THEN documents ELSE {},
        !.prev = IF indexer.pc = "done" /\ indexer.op = "index_from_path"
                 THEN indexer.last ELSE NoSnapshot]

\* _index_directory up to the loop: ValueError for a missing directory,
\* otherwise the file list and a zero count
_index_directory(ix, docs, order) ==
    IF ~docs.exists
    THEN [ix EXCEPT !.pc = "raised", !.error = "ValueError"]
    ELSE [ix EXCEPT !.pc = "loop", !.md_files = order,
                    !.indexed_count = 0]

\* an index_from_path that first deletes the rows whose file is gone
index_from_path_sync ==
    /\ Stopped
    /\ indexer.runs < MaxRuns
    /\ \E order \in Orderings(MarkdownFiles(fs)) :
          indexer' = _index_directory(StartRun("index_from_path"), fs, order)
    /\ documents' = {r \in documents : r.path \in MarkdownFiles(fs)}
    /\ documents_fts' = DeleteAll(documents_fts, documents \ documents')
    /\ UNCHANGED <<sqlite_sequence, now, ret, parsed, fs, conn>>

\* index_from_path(path) up to the loop of _index_directory
index_from_path ==
    /\ Stopped
    /\ indexer.runs < MaxRuns
    /\ \E order \in Orderings(MarkdownFiles(fs)) :
          indexer' = _index_directory(StartRun("index_from_path"), fs, order)
    /\ UNCHANGED <<documents, documents_fts, sqlite_sequence, now, ret, parsed, fs, conn>>

\* index_from_git(branch) up to the call of _clone_repository
index_from_git ==
    /\ Stopped
    /\ indexer.runs < MaxRuns
    /\ indexer' = [StartRun("index_from_git") EXCEPT !.pc = "cloning"]
    /\ UNCHANGED <<documents, documents_fts, sqlite_sequence, now, ret, parsed, fs, conn>>

\* rebuild_index(branch): database.clear(), then index_from_git(branch) up to
\* the call of _clone_repository
rebuild_index_no_clear ==
    /\ Stopped
    /\ indexer.runs < MaxRuns
    /\ indexer' = [StartRun("rebuild_index") EXCEPT !.pc = "cloning"]
    /\ UNCHANGED <<documents, documents_fts, sqlite_sequence, now, ret, parsed, fs, conn>>

rebuild_index ==
    /\ Stopped
    /\ indexer.runs < MaxRuns
    /\ clear
    /\ indexer' = [StartRun("rebuild_index") EXCEPT !.pc = "cloning"]
    /\ UNCHANGED <<fs, conn>>

\* _clone_repository succeeds, and _index_directory starts on the docs
\* directory of the clone
CloneRepository ==
    /\ indexer.pc = "cloning"
    /\ \E order \in Orderings(MarkdownFiles(fs)) :
          indexer' = _index_directory(indexer, fs, order)
    /\ UNCHANGED <<documents, documents_fts, sqlite_sequence, now, ret, parsed, fs, conn>>

\* a failed clone that rolls the clear of the rebuild back
CloneRepositoryFails_rollback ==
    /\ indexer.pc = "cloning"
    /\ indexer' = [indexer EXCEPT !.pc = "raised", !.error = "CalledProcessError"]
    /\ documents' = IF indexer.op = "rebuild_index" THEN indexer.before ELSE documents
    /\ documents_fts' =
          IF indexer.op = "rebuild_index"
          THEN {FtsEntry(r.id, r.title, r.description, r.content) : r \in indexer.before}
          ELSE documents_fts
    /\ UNCHANGED <<sqlite_sequence, now, ret, parsed, fs, conn>>

\* subprocess.run(..., check=True) raises for a failed git
CloneRepositoryFails ==
    /\ indexer.pc = "cloning"
    /\ indexer' = [indexer EXCEPT !.pc = "raised", !.error = "CalledProcessError"]
    /\ UNCHANGED <<documents, documents_fts, sqlite_sequence, now, ret, parsed, fs, conn>>

\* the count after one file of the loop
IndexedCount_every_file(count, document) == count + 1

IndexedCount(count, document) == IF document.some THEN count + 1 ELSE count

\* one iteration of the loop of _index_directory
IndexFile ==
    /\ indexer.pc = "loop"
    /\ indexer.md_files # <<>>
    /\ LET file_path == Head(indexer.md_files)
           document == parse_file(file_path, fs)
           next == [indexer EXCEPT
                       !.md_files = Tail(@),
                       !.indexed_count = IndexedCount(@, document)]
       IN IF document.some
          THEN /\ upsert_document(document.val)
               /\ indexer' = [next EXCEPT !.upserted = Append(@, file_path)]
          ELSE /\ indexer' = [next EXCEPT !.skipped = Append(@, file_path)]
               /\ UNCHANGED <<documents, documents_fts, sqlite_sequence, now, ret, parsed>>
    /\ UNCHANGED <<fs, conn>>

\* upsert_document raises inside the loop: nothing is written and the
\* exception leaves _index_directory
IndexFileFails ==
    /\ indexer.pc = "loop"
    /\ indexer.md_files # <<>>
    /\ parse_file(Head(indexer.md_files), fs).some
    /\ indexer' = [indexer EXCEPT !.pc = "raised", !.error = "sqlite3.Error"]
    /\ UNCHANGED <<documents, documents_fts, sqlite_sequence, now, ret, parsed, fs, conn>>

\* the loop is over: _index_directory returns indexed_count
IndexReturn ==
    /\ indexer.pc = "loop"
    /\ indexer.md_files = <<>>
    /\ indexer' = [indexer EXCEPT
                      !.pc = "done", !.result = Some(indexer.indexed_count),
                      !.last = IF indexer.op = "index_from_path"
                               THEN TakeSnapshot(indexer.indexed_count)
                               ELSE NoSnapshot]
    /\ UNCHANGED <<documents, documents_fts, sqlite_sequence, now, ret, parsed, fs, conn>>

\* the process is killed in the middle of a run
Crash ==
    /\ indexer.pc \in {"cloning", "loop"}
    /\ indexer' = [indexer EXCEPT !.pc = "crashed", !.error = "killed"]
    /\ UNCHANGED <<documents, documents_fts, sqlite_sequence, now, ret, parsed, fs, conn>>

\* the documentation source is edited between two runs; the outcome of the
\* last run no longer describes it
EditDirectory ==
    /\ Stopped
    /\ \E docs \in Directories : docs # fs /\ fs' = docs
    /\ indexer' = [IndexerIdle EXCEPT !.runs = indexer.runs]
    /\ UNCHANGED <<documents, documents_fts, sqlite_sequence, now, ret, parsed, conn>>

\* the wall clock advances between operations
Tick ==
    /\ now < MaxClock
    /\ now' = now + 1
    /\ ret' = [op |-> "tick"]
    /\ UNCHANGED <<documents, documents_fts, sqlite_sequence, parsed, fs, indexer, conn>>

\* a caller's upsert_document(doc)
Upsert ==
    /\ sqlite_sequence < MaxSeq
    /\ \E doc \in Document : upsert_document(doc)
    /\ UNCHANGED <<fs, indexer, conn>>

\* a caller's clear()
Clear ==
    /\ clear
    /\ UNCHANGED <<fs, indexer, conn>>

Init ==
    /\ documents = {}
    /\ documents_fts = {}
    /\ sqlite_sequence = 0
    /\ now = 0
    /\ ret = [op |-> "init"]
    /\ parsed = [op |-> "none"]
    /\ fs = NoDirectory
    /\ indexer = IndexerIdle
    /\ conn = NoConnection

Next ==
    \/ Upsert
    \/ Clear
    \/ GetDocument
    \/ GetDocumentCount
    \/ \E p \in Paths : _read_documentation_impl(p)
    \/ Tick

Spec == Init /\ [][Next]_vars

\* the store under upserts, clears and searches
NextSearch ==
    \/ Upsert
    \/ Clear
    \/ Search

SpecSearch == Init /\ [][NextSearch]_vars

\* the store behind the search front-end
NextServer ==
    \/ Upsert
    \/ Clear
    \/ Search
    \/ \E q \in Queries, s \in SectionArgs, l \in ServerLimits :
          _search_documentation_impl(q, s, l)

SpecServer == Init /\ [][NextServer]_vars

\* the parser applied to a file's frontmatter and name
NextIndexer ==
    \/ index_from_path
    \/ index_from_git
    \/ rebuild_index
    \/ CloneRepository
    \/ CloneRepositoryFails
    \/ IndexFile
    \/ IndexFileFails
    \/ IndexReturn
    \/ Crash
    \/ EditDirectory
    \/ GetDocumentCount
    \/ Tick

SpecIndexer == Init /\ [][NextIndexer]_vars

\* the store written by indexing runs and by a caller's clear(), and read
\* in between
NextLifecycle ==
    \/ Clear
    \/ GetDocument
    \/ GetDocumentCount
    \/ index_from_path
    \/ index_from_git
    \/ rebuild_index
    \/ CloneRepository
    \/ CloneRepositoryFails
    \/ IndexFile
    \/ IndexFileFails
    \/ IndexReturn
    \/ Crash
    \/ EditDirectory

SpecLifecycle == Init /\ [][NextLifecycle]_vars

\* reads on their own connections beside a write in progress
NextConcurrent ==
    \/ ExecuteUpsert
    \/ ExecuteClear
    \/ Commit
    \/ Rollback
    \/ GetDocument
    \/ GetDocumentCount
    \/ SearchAll

SpecConcurrent == Init /\ [][NextConcurrent]_vars

InitParser ==
    /\ documents = {}
    /\ documents_fts = {}
    /\ sqlite_sequence = 0
    /\ now = 0
    /\ ret = [op |-> "init"]
    /\ fs = NoDirectory
    /\ indexer = IndexerIdle
    /\ conn = NoConnection
    /\ parsed \in {[op |-> "input", metadata |-> m, file_name |-> f] :
                     m \in Metadata, f \in FileNames}
                  \cup {[op |-> "input_path", relative_path |-> r] :
                          r \in RelativePaths}
                  \cup {[op |-> "input_content", content |-> c] :
                          c \in RawContents}

NextParser ==
    \/ ExtractMetadata
    \/ ComputeUrl
    \/ CleanContent

SpecParser == InitParser /\ [][NextParser]_vars

-----------------------------------------------------------------------------
(* Properties of the store *)

\* the last operation was an upsert that replaced a stored row: an inserted
\* row takes the counter's value as its id, a replaced row keeps an older id
LastUpsertReplaced ==
    /\ ret.op = "upsert_document"
    /\ \E r \in documents : r.path = ret.doc.path /\ r.id # sqlite_sequence

\* C1: the search index holds exactly one entry per stored Document, keyed by
\* the Document's id and built from its current title, description and
\* content; it holds no entry of a Document that is not stored and no entry
\* built from an earlier version.
C1_IndexReflectsDocuments ==
    /\ documents_fts
         = {FtsEntry(r.id, r.title, r.description, r.content) : r \in documents}
    /\ \A r \in documents :
         Cardinality({e \in documents_fts : e.rowid = r.id}) = 1
    /\ \A e \in documents_fts : \E r \in documents : r.id = e.rowid

\* an upsert has replaced the indexed columns of a stored Document
C1_Witness ==
    /\ LastUpsertReplaced
    /\ Cardinality(documents_fts) = 2

\* C2: no two stored Documents share a path; after an upsert exactly one row
\* has the upserted path and it holds the upserted fields; an upsert of a
\* stored path leaves get_document_count() as it was.
C2_PathUnique ==
    /\ \A r1, r2 \in documents : r1.path = r2.path => r1 = r2
    /\ ret.op = "upsert_document" =>
         /\ Cardinality(RowsWithPath(ret.doc.path)) = 1
         /\ \A r \in RowsWithPath(ret.doc.path) :
              /\ r.title = ret.doc.title
              /\ r.description = ret.doc.description
              /\ r.section = ret.doc.section
              /\ r.url = ret.doc.url
              /\ r.content = ret.doc.content

C2_CountKept ==
    \A doc \in Document :
        (upsert_document(doc) /\ RowsWithPath(doc.path) # {})
            => get_document_count' = get_document_count

C2_UpsertReplaces == []C2_PathUnique /\ [][C2_CountKept]_vars

\* the second upsert of a path, with other content, has been made
C2_Witness ==
    /\ LastUpsertReplaced
    /\ get_document_count = 1
    /\ sqlite_sequence = 2

\* C3: after upsert_document(d), get_document(d.path) returns a Document
\* equal to d in path, title, description, section, content and url; a
\* get_document of a path that is not stored returns None.
C3_RoundTrip ==
    /\ ret.op = "upsert_document" => get_document(ret.doc.path) = Some(ret.doc)
    /\ (ret.op = "get_document" /\ \A r \in documents : r.path # ret.path)
          => ret.value = None
    /\ (ret.op = "get_document" /\ ret.value.some)
          => \E r \in documents :
                /\ r.path = ret.path
                /\ ret.value.val =
                     [path |-> r.path, title |-> r.title,
                      description |-> r.description, section |-> r.section,
                      content |-> r.content, url |-> r.url]

\* a replaced Document is read back, while the other path is not stored
C3_Witness ==
    /\ LastUpsertReplaced
    /\ get_document(ret.doc.path).some
    /\ \E p \in Paths : get_document(p) = None

\* C5: after clear() the count is 0, get_document returns None for every path
\* that was stored, search returns no result for any query, and a second
\* clear() leaves the store as the first one left it.
C5_Cleared ==
    ret.op = "clear" =>
        /\ get_document_count = 0
        /\ \A p \in ret.before : get_document(p) = None
        /\ \A q \in Queries, s \in SectionArgs, l \in StoreLimits :
              search(q, s, l) = <<>>
        /\ documents_fts = {}

C5_Idempotent ==
    (ret.op = "clear" /\ clear)
        => <<documents, documents_fts, sqlite_sequence, now>>'
              = <<documents, documents_fts, sqlite_sequence, now>>

C5_ClearResets == []C5_Cleared /\ [][C5_Idempotent]_vars

\* a store holding two Documents has been cleared
C5_Witness ==
    /\ ret.op = "clear"
    /\ Cardinality(ret.before) = 2
    /\ documents = {}

\* C7: an upsert of a stored path sets the row's updated_at to the current
\* time and keeps its created_at and its id; a row's created_at is set by
\* the upsert that inserts the row and by nothing else.
C7_Step ==
    /\ \A doc \in Document :
         (upsert_document(doc) /\ RowsWithPath(doc.path) # {})
            => \A old \in RowsWithPath(doc.path) :
                 \E new \in documents' :
                    /\ new.path = doc.path
                    /\ new.updated_at = now
                    /\ new.created_at = old.created_at
                    /\ new.id = old.id
    /\ \A new \in documents' :
         \/ \E old \in documents :
               /\ old.path = new.path
               /\ old.id = new.id
               /\ old.created_at = new.created_at
         \/ /\ \A old \in documents : old.path # new.path
            /\ \E doc \in Document : upsert_document(doc) /\ doc.path = new.path
            /\ new.created_at = now

C7_CreatedAtKept == [][C7_Step]_vars

\* a stored Document has been upserted again at a later time
C7_Witness ==
    /\ LastUpsertReplaced
    /\ \E r \in documents :
          r.path = ret.doc.path /\ r.updated_at > r.created_at

-----------------------------------------------------------------------------
(* Properties of search *)

\* the words of the current title, description and content of a row, by stem
RowStems(r) ==
    Range(Tokenize(r.title)) \cup Range(TokenizeOpt(r.description))
        \cup Range(Tokenize(r.content))

\* the stored Documents whose current text contains every term of the query
Expected(query) ==
    {r \in documents : \A i \in 1..Len(query) : Stem(query[i]) \in RowStems(r)}

\* C4 as stated: every result of search(q, s) has section s, and the results
\* are among those of search(q) with no section and the same limit.
C4_Original ==
    (ret.op = "search" /\ ret.section.some) =>
        /\ \A i \in 1..Len(ret.value) : ret.value[i].section = ret.section.val
        /\ Range(ret.value) \subseteq Range(search(ret.query, None, ret.limit))

\* C4: for a section s that is not the empty string every result of
\* search(q, s) has section s; the empty string is no filter; the results of
\* search(q, s) are among those of search(q) with no section whenever that
\* search has a negative limit or a limit of at least the number of stored
\* Documents matching q.
C4_SectionFilter ==
    (ret.op = "search" /\ ret.section.some) =>
        /\ ret.section.val # "" =>
              \A i \in 1..Len(ret.value) :
                  ret.value[i].section = ret.section.val
        /\ ret.section.val = "" =>
              ret.value = search(ret.query, None, ret.limit)
        /\ \A l \in StoreLimits :
              (l < 0 \/ l >= Cardinality(Expected(ret.query)))
                 => Range(ret.value) \subseteq Range(search(ret.query, None, l))

\* a search with a section has returned a Document and left another match out
C4_Witness ==
    /\ ret.op = "search"
    /\ Truthy(ret.section)
    /\ Len(ret.value) = 1
    /\ Cardinality(Expected(ret.query)) = 2

\* C6: with no section and a limit of at least the number of stored Documents,
\* search(q) returns exactly the stored Documents whose current title,
\* description or content contain every term of q, compared by stem.
C6_SearchExact ==
    (ret.op = "search" /\ ~ret.section.some
        /\ ret.limit >= get_document_count) =>
        /\ {ret.value[i].path : i \in 1..Len(ret.value)}
              = {r.path : r \in Expected(ret.query)}
        /\ Len(ret.value) = Cardinality(Expected(ret.query))

\* a replaced Document that has lost the term is left out, and a Document
\* with one of the two terms only is left out
C6_Witness ==
    /\ ret.op = "search"
    /\ ~ret.section.some
    /\ ret.limit = 2
    /\ Len(ret.query) = 2
    /\ Len(ret.value) = 1
    /\ get_document_count = 2
    /\ \E r \in documents : r.id # 1 /\ r.id # sqlite_sequence /\ r \notin Expected(ret.query)

ExpectedStoreLimit(limit) ==
    IF limit < 1 THEN 1 ELSE IF limit > 50 THEN 50 ELSE limit

C9_FrontEnd ==
    ret.op = "search_documentation" =>
        /\ ret.store_limit = ExpectedStoreLimit(ret.limit)
        /\ Len(ret.output.results) <= ret.store_limit
        /\ Len(ret.output.results) <= 50

\* C9 as stated: the front-end hands min(max(1, limit), 50) to the store and
\* returns no more hits than that; the store returns at most `limit` rows for
\* any limit it is given.
C9_Original ==
    /\ C9_FrontEnd
    /\ ret.op = "search" => Len(ret.value) <= ret.limit

\* C9: the front-end hands min(max(1, limit), 50) to the store and returns no
\* more hits than that; the store returns at most `limit` rows for a limit
\* that is not negative, and every selected row for a negative limit.
C9_LimitCaps ==
    /\ C9_FrontEnd
    /\ (ret.op = "search" /\ ret.limit >= 0) => Len(ret.value) <= ret.limit
    /\ (ret.op = "search" /\ ret.limit < 0) =>
          Len(ret.value) = Cardinality(SelectedRows(ret.query, ret.section))

\* a limit of 0 has been raised to 1 and has cut two matches down to one hit
C9_Witness ==
    /\ ret.op = "search_documentation"
    /\ ret.limit = 0
    /\ Len(ret.output.results) = 1
    /\ Cardinality(SelectedRows(ret.query, ret.section)) = 2

-----------------------------------------------------------------------------
(* Properties of the parser *)

\* "Test File", the title of test-file.md without a metadata title
TestFileTitle == <<"T", "e", "s", "t", " ", "F", "i", "l", "e">>

\* C10 as stated: a metadata title that is a non-empty string is the title;
\* when the title is missing, not a string or empty, the title is the file
\* name's stem with '-' and '_' replaced by spaces and every word title-cased.
C10_TitleResolution ==
    parsed.op = "_extract_metadata" =>
        LET title == parsed.metadata.title
            stem == PathStem(parsed.file_name)
        IN IF title.type = "str" /\ title.val # <<>>
           THEN parsed.value.title = title.val
           ELSE /\ Len(parsed.value.title) = Len(stem)
                /\ \A i \in 1..Len(stem) :
                     IF stem[i] \in {"-", "_"}
                     THEN parsed.value.title[i] = " "
                     ELSE ToLower(parsed.value.title[i]) = ToLower(stem[i])
                /\ \A i \in 1..Len(stem) :
                     (IsCased(stem[i]) /\ (i = 1 \/ ~IsCased(stem[i - 1])))
                        => IsUpper(parsed.value.title[i])
                /\ parsed.file_name = <<"t", "e", "s", "t", "-", "f", "i", "l", "e", ".", "m", "d">>
                     => parsed.value.title = TestFileTitle

\* the relative path without a trailing .md or .markdown
StripExtension(relative_path) ==
    IF EndsWith(relative_path, DotMd)
    THEN SubSeq(relative_path, 1, Len(relative_path) - Len(DotMd))
    ELSE IF EndsWith(relative_path, DotMarkdown)
    THEN SubSeq(relative_path, 1, Len(relative_path) - Len(DotMarkdown))
    ELSE relative_path

\* C11 as stated: the URL is the base URL, a '/', and the relative path with
\* only its trailing .md or .markdown removed and .html appended when it is
\* not there already; directory components and the rest of the file name are
\* carried over unchanged.
C11_UrlDerivation ==
    parsed.op = "_compute_url" =>
        LET stripped == StripExtension(parsed.relative_path)
        IN parsed.value =
             SPARK_DOCS_BASE_URL \o <<"/">>
                \o (IF EndsWith(stripped, DotHtml) THEN stripped
                    ELSE stripped \o DotHtml)

\* a single-line span open ... close somewhere in the text
HasSpan(t, open, close, dotall) ==
    \E k \in 1..Len(t), j \in 1..Len(t) : Spans(t, k, j, open, close, dotall)

HasDirective(t) ==
    \/ HasSpan(t, LiquidTagOpen, LiquidTagClose, FALSE)
    \/ HasSpan(t, LiquidOutputOpen, LiquidOutputClose, FALSE)

HasComment(t) == HasSpan(t, CommentOpen, CommentClose, TRUE)

\* a tag <...> with at least one character between its brackets
HasTag(t) == \E k \in 1..Len(t) : TagClose(t, k) # 0

Stripped(t) ==
    t # <<>> => (t[1].c \notin Whitespace /\ t[Len(t)].c \notin Whitespace)

\* the text is made of characters of the raw content, in their order
KeptInOrder(t, content) ==
    /\ \A k \in 1..Len(t) : t[k].i \in 1..Len(content) /\ t[k].c = content[t[k].i]
    /\ \A k \in 1..(Len(t) - 1) : t[k].i < t[k + 1].i

\* every directive of the text is made of pieces that a removed span kept
\* apart in the raw content
DirectivesAssembled(t) ==
    \A open \in {LiquidTagOpen, LiquidOutputOpen} :
        \A k \in 1..Len(t), j \in 1..Len(t) :
            LET close == IF open = LiquidTagOpen THEN LiquidTagClose
                         ELSE LiquidOutputClose
            IN Spans(t, k, j, open, close, FALSE)
                  => \E m \in k..(j + Len(close) - 2) : t[m + 1].i # t[m].i + 1

\* a raw content on which the order of the substitutions shows
OrderInput == <<"{", "%", " ", "<", "!", "-", "-", " ", "%", "}", " ", "a", " ", "-", "-", ">">>

OrderOutput == <<"a", " ", "-", "-", ">">>

\* C12 as stated: the output holds no single-line directive {%...%} or
\* {{...}}, no HTML comment, no HTML tag and no leading or trailing
\* whitespace; the text outside the removed spans is kept in its order.
C12_Original ==
    parsed.op = "_clean_content" =>
        LET out == CleanTagged(Tagged(parsed.content))
        IN /\ parsed.value = Chars(out)
           /\ ~HasDirective(out)
           /\ ~HasComment(out)
           /\ ~HasTag(out)
           /\ Stripped(out)
           /\ KeptInOrder(out, parsed.content)

\* C12: the output holds no HTML comment, no HTML tag with a character
\* between its brackets and no leading or trailing whitespace; it is made of
\* characters of the input in their order; no directive {%...%} or {{...}}
\* of the input is left, a directive of the output being one that the
\* removal of a span has put together; directives are removed before
\* comments, comments before tags.
C12_CleanContent ==
    parsed.op = "_clean_content" =>
        LET out == CleanTagged(Tagged(parsed.content))
        IN /\ parsed.value = Chars(out)
           /\ DirectivesAssembled(out)
           /\ ~HasComment(out)
           /\ ~HasTag(out)
           /\ Stripped(out)
           /\ KeptInOrder(out, parsed.content)
           /\ parsed.content = OrderInput => parsed.value = OrderOutput

\* a directive and a comment of two lines have been removed from around a word
C12_Witness ==
    /\ parsed.op = "_clean_content"
    /\ HasDirective(Tagged(parsed.content))
    /\ HasComment(Tagged(parsed.content))
    /\ parsed.value = <<"H", "i">>

-----------------------------------------------------------------------------
(* Indexing runs *)

Elems(seq) == {seq[i] : i \in 1..Len(seq)}

\* the files of the source the parser makes a Document of
ParsedFiles == {p \in MarkdownFiles(fs) : parse_file(p, fs).some}

\* an indexing pass has returned
PassDone == indexer.pc = "done"

C13_Pass ==
    PassDone =>
        /\ Elems(indexer.upserted) \cup Elems(indexer.skipped) = MarkdownFiles(fs)
        /\ Elems(indexer.skipped) = MarkdownFiles(fs) \ ParsedFiles
        /\ Elems(indexer.upserted) = ParsedFiles
        /\ Len(indexer.upserted) = Cardinality(ParsedFiles)
        /\ Len(indexer.skipped) = Cardinality(MarkdownFiles(fs) \ ParsedFiles)
        /\ indexer.result = Some(Cardinality(ParsedFiles))
        /\ \A p \in ParsedFiles : get_document(p) = parse_file(p, fs)

C13_Step ==
    indexer.pc = "loop" /\ indexer'.pc = "loop" /\ indexer' # indexer =>
        /\ Len(indexer'.md_files) = Len(indexer.md_files) - 1
        /\ indexer'.indexed_count - indexer.indexed_count
             = sqlite_sequence' - sqlite_sequence
        /\ indexer'.indexed_count - indexer.indexed_count
             = Len(indexer'.upserted) - Len(indexer.upserted)

\* C13: a pass over an existing directory visits every enumerated file, skips
\* the files the parser returns None for and goes on, upserts every parsed
\* file exactly once, and returns the number of parsed files, which is the
\* number of upserts it made.
C13_IndexingPass == [](C13_Pass) /\ [][C13_Step]_vars

\* a pass that skipped doc1.md, upserted doc2.md and returned 1
C13_Witness ==
    /\ PassDone
    /\ indexer.skipped = <<"doc1.md">>
    /\ indexer.upserted = <<"doc2.md">>
    /\ indexer.result = Some(1)
    /\ get_document_count = 1

\* an index_from_path run has returned right after another one that returned,
\* on a directory nobody edited in between
SecondRunDone ==
    PassDone /\ indexer.op = "index_from_path" /\ indexer.prev.taken

\* C14: a second index_from_path on the unchanged directory returns the same
\* count and leaves the same Documents (timestamps aside), the same
\* get_document_count() and the same search results as the first.
C14_Idempotent ==
    SecondRunDone =>
        /\ indexer.last.docs = indexer.prev.docs
        /\ indexer.last.count = indexer.prev.count
        /\ indexer.last.results = indexer.prev.results
        /\ indexer.last.returned = indexer.prev.returned
        /\ indexer.last.docs = StoredDocuments
        /\ indexer.result = Some(indexer.prev.returned)

\* a second run that upserted two files again, one second later, with a
\* search that finds them
C14_Witness ==
    /\ SecondRunDone
    /\ Len(indexer.upserted) = 2
    /\ indexer.prev.count = 2
    /\ \E r \in documents : r.updated_at # r.created_at
    /\ \E a \in Queries \X SectionArgs \X StoreLimits :
          Len(indexer.prev.results[a]) = 2

StoredPaths == {r.path : r \in documents}

\* a rebuild has run to its end
RebuildDone == PassDone /\ indexer.op = "rebuild_index"

\* C15: after a rebuild that completes, whatever was stored before, the stored
\* paths are the files of the source parsed in that pass, the count is the
\* count the rebuild returned, and no row of before the rebuild is left: a
\* stored Document is the one its file was parsed to in this pass.
C15_Rebuild ==
    RebuildDone =>
        /\ StoredPaths = ParsedFiles
        /\ StoredPaths = Elems(indexer.upserted)
        /\ Some(get_document_count) = indexer.result
        /\ documents \cap indexer.before = {}
        /\ \A r \in documents : \A b \in indexer.before : r.id # b.id
        /\ \A p \in StoredPaths : get_document(p) = parse_file(p, fs)

\* a rebuild over a store that held doc1.md and doc2.md whose source has
\* only doc2.md left
C15_Witness ==
    /\ RebuildDone
    /\ {b.path : b \in indexer.before} = {"doc1.md", "doc2.md"}
    /\ StoredPaths = {"doc2.md"}
    /\ indexer.result = Some(1)

\* a step that is a clear(), called directly or by rebuild_index
ClearStep ==
    /\ clear
    /\ indexer' = indexer \/ indexer'.op = "rebuild_index"

C16_Step ==
    \/ ClearStep
    \/ /\ StoredPaths \subseteq StoredPaths'
       /\ Cardinality(documents') >= Cardinality(documents)

\* C16: a stored path stops being stored only in a clear(), direct or inside a
\* rebuild; every other step keeps every stored path, so between two
\* clears the count never goes down.
C16_NeverRemoved == [][C16_Step]_vars

\* an index_from_path run has returned, the file of doc1.md is gone from the
\* directory, and doc1.md is still stored and found by a search
C16_Witness ==
    /\ PassDone
    /\ indexer.op = "index_from_path"
    /\ fs.exists
    /\ fs.files["doc1.md"] = NoFile
    /\ indexer.upserted = <<"doc2.md">>
    /\ get_document("doc1.md").some
    /\ \E i \in 1..Len(search(<<"Spark", "SQL">>, None, -1)) :
          search(<<"Spark", "SQL">>, None, -1)[i].path = "doc1.md"

\* a rebuild has stopped, by an exception or by the death of the process,
\* before the first upsert of its pass
RebuildStoppedEarly ==
    /\ indexer.op = "rebuild_index"
    /\ indexer.pc \in {"raised", "crashed"}
    /\ indexer.upserted = <<>>

\* C17: the clear of a rebuild is committed before the source is acquired, so
\* a rebuild that stops before its first upsert leaves an empty store with a
\* count of 0, none of the rows of before the rebuild, and no return value:
\* an exception has left rebuild_index, or the process is dead.
C17_NotAtomic ==
    /\ indexer.op = "rebuild_index" /\ indexer.pc = "cloning" =>
          documents = {} /\ documents_fts = {}
    /\ RebuildStoppedEarly =>
          /\ documents = {}
          /\ documents_fts = {}
          /\ get_document_count = 0
          /\ \A b \in indexer.before : ~get_document(b.path).some
          /\ indexer.result = None
          /\ indexer.pc = "raised" =>
                indexer.error \in {"CalledProcessError", "ValueError", "sqlite3.Error"}

\* a rebuild over a store of two Documents whose clone failed
C17_Witness ==
    /\ RebuildStoppedEarly
    /\ indexer.error = "CalledProcessError"
    /\ Cardinality(indexer.before) = 2
    /\ documents = {}

-----------------------------------------------------------------------------
(* Reads beside a write *)

\* what a read finds for a path in a table and an index: the row and the
\* index entries of its id
View(table, index, p) ==
    LET rows == {r \in table : r.path = p}
    IN [rows |-> rows,
        entries |-> {x \in index : \E r \in rows : r.id = x.rowid}]

\* the table and the index answer a read as one: every row has its entry,
\* built from the row, and no entry is without its row
ReadConsistent ==
    documents_fts
       = {FtsEntry(r.id, r.title, r.description, r.content) : r \in documents}

\* a read has returned in this step: its value is the one of the committed
\* database, whatever a write in progress has executed, and it changes nothing
ReadAnswer ==
    ret' # ret /\ ret'.op \in {"get_document", "get_document_count", "search"} =>
        /\ ret'.op = "get_document" => ret'.value = get_document(ret'.path)
        /\ ret'.op = "get_document_count" => ret'.value = get_document_count
        /\ ret'.op = "search" =>
              ret'.value = search(ret'.query, ret'.section, ret'.limit)
        /\ UNCHANGED <<documents, documents_fts, conn>>

C18_Step ==
    /\ \A p \in Paths :
          \/ View(documents', documents_fts', p) = View(documents, documents_fts, p)
          \/ /\ conn.state = "pending"
             /\ View(documents', documents_fts', p)
                  = View(conn.documents, conn.documents_fts, p)
    /\ <<documents', documents_fts'>> # <<documents, documents_fts>> =>
          /\ conn.state = "pending"
          /\ documents' = conn.documents
          /\ documents_fts' = conn.documents_fts
    /\ conn.state = "pending" /\ ret'.op = "raised" =>
          UNCHANGED <<documents, documents_fts, sqlite_sequence>>
    /\ ReadAnswer

\* C18: a read beside an upsert_document or clear in progress is answered
\* from a table and an index that agree; for every path it finds the
\* Document and its index entry either both as before the write or both as
\* after it, and a write that fails before its commit changes neither.
C18_AtomicWrites == []ReadConsistent /\ [][C18_Step]_vars

\* a get_document that ran while an update of the same path was executed
\* and not yet committed, and returned the Document as it was
C18_Witness ==
    /\ conn.state = "pending"
    /\ conn.ret.op = "upsert_document"
    /\ ret.op = "get_document"
    /\ ret.path = conn.ret.doc.path
    /\ ret.value.some
    /\ ret.value.val # conn.ret.doc

====
